---- MODULE Spec2Model ----
(***************************************************************************)
(* A model of main.py of WormSim-Python: the IK chain (IKSegment, IKChain),*)
(* the locomotion step (WormSimulation.update_brain / update), the food    *)
(* list, and the neuron grid layout (initialize_neuron_positions).         *)
(*                                                                         *)
(* Numbers.  The program computes in Python floats; the model computes on  *)
(* fixed-point grids, rounding to the nearest grid point where the program *)
(* rounds to the nearest float:                                            *)
(*   - lengths and coordinates are integers in units of 1/PosScale pixel;  *)
(*   - facing_dir is an integer number of tenths of a radian (the program  *)
(*     only ever adds or subtracts 0.1 to it, starting from 0);            *)
(*   - an angle that involves pi is a record [t, p] standing for           *)
(*     t/10 + p*pi/20 radians (the motor accumulators are integers, so     *)
(*     new_dir * pi is a whole number of pi/20);                           *)
(*   - cos and sin are tables of round(1000*cos(k/10)), round(1000*sin).   *)
(***************************************************************************)
EXTENDS Integers, Sequences, FiniteSets

VARIABLES
    pc,                     \* position in WormSimulation.run / in the layout
    tick,                   \* completed iterations of the frame loop
    accumleft, accumright,  \* brain.accumleft, brain.accumright
    food_sense,             \* brain.stimulate_food_sense_neurons
    target,                 \* self.target
    facing_dir,             \* self.facing_dir
    target_dir,             \* self.target_dir
    speed,                  \* self.speed
    target_speed,           \* self.target_speed
    speed_change_interval,  \* self.speed_change_interval
    food,                   \* self.food
    chain,                  \* self.chain.segments
    unwrapped,              \* self.target between lines 155 and 157
    snapshot,               \* self.food[:] of line 160
    neurons,                \* len(self.brain.post_synaptic)
    rows, cols,             \* locals of initialize_neuron_positions
    positions               \* the dict initialize_neuron_positions builds

vars == <<pc, tick, accumleft, accumright, food_sense, target, facing_dir,
          target_dir, speed, target_speed, speed_change_interval, food,
          chain, unwrapped, snapshot, neurons, rows, cols, positions>>

layoutVars == <<neurons, rows, cols, positions>>

----------------------------------------------------------------------------
(* Bounds of the model *)

PosScale == 100         \* grid points per pixel
Width == 120            \* self.width (the display's), in pixels
Height == 6             \* self.height (the display's), in pixels
MaxTicks == 3           \* frames explored by Spec
MaxFood == 2            \* markers held at once in Spec
MaxHoldTicks == 34      \* frames explored by SpecHold
MaxIKSteps == 3         \* IKChain.update calls explored by SpecIK
MaxNeurons == 13        \* neuron identifiers explored by SpecLayout

(* Program constants *)

NumSegments == 10       \* IKChain(10, 10)
SegmentLength == 10     \* IKChain(10, 10)
ScalingFactor == 20     \* scaling_factor
SenseRadius == 50       \* distance <= 50
ConsumeRadius == 20     \* distance <= 20
TurnStep == 1           \* 0.1 rad, in tenths of a radian

(* Inputs *)

\* <<accumleft, accumright>>: heading errors of pi/2, of 3pi/2 either way and
\* of 2pi (beyond pi, under 3pi), of 3.75pi, and two pairs of great magnitude,
\* one straight ahead and one turning
AccumPairs == { <<10, 0>>, <<40, 10>>, <<10, 40>>, <<0, 40>>, <<75, 0>>,
                <<-60000, -60000>>, <<0, -60000>> }
HoldVals == {-75, -10, 0, 10, 75}
FoodSpots == {[x |-> 60, y |-> 3], [x |-> 10, y |-> 5]}
IKPoints == {[x |-> 0, y |-> 0], [x |-> 100 * PosScale, y |-> 0],
             [x |-> -3 * PosScale, y |-> 4 * PosScale],
             [x |-> 5 * PosScale + 1, y |-> -12 * PosScale - 1]}

----------------------------------------------------------------------------
(* Arithmetic *)

Abs(a) == IF a < 0 THEN -a ELSE a

Sgn(a) == IF a > 0 THEN 1 ELSE IF a < 0 THEN -1 ELSE 0

\* a / b for b > 0, rounded to the nearest grid point (halves away from zero)
RoundDiv(a, b) == Sgn(a) * ((2 * Abs(a) + b) \div (2 * b))

\* math.cos(k / 10) and math.sin(k / 10), times 1000, for k = 0 .. 63
CosTable ==
 << 1000,   995,   980,   955,   921,   878,   825,   765,
     697,   622,   540,   454,   362,   267,   170,    71,
     -29,  -129,  -227,  -323,  -416,  -505,  -589,  -666,
    -737,  -801,  -857,  -904,  -942,  -971,  -990,  -999,
    -998,  -987,  -967,  -936,  -897,  -848,  -791,  -726,
    -654,  -575,  -490,  -401,  -307,  -211,  -112,   -12,
      87,   187,   284,   378,   469,   554,   635,   709,
     776,   835,   886,   927,   960,   983,   997,  1000 >>

SinTable ==
 <<    0,   100,   199,   296,   389,   479,   565,   644,
     717,   783,   841,   891,   932,   964,   985,   997,
    1000,   992,   974,   946,   909,   863,   808,   746,
     675,   598,   516,   427,   335,   239,   141,    42,
     -58,  -158,  -256,  -351,  -443,  -530,  -612,  -688,
    -757,  -818,  -872,  -916,  -952,  -978,  -994, -1000,
    -996,  -982,  -959,  -926,  -883,  -832,  -773,  -706,
    -631,  -551,  -465,  -374,  -279,  -182,   -83,    17 >>

Cos(k) == CosTable[Abs(k) + 1]

Sin(k) == IF k < 0 THEN -SinTable[-k + 1] ELSE SinTable[k + 1]

\* c * v for a table entry c
TrigMul(c, v) == RoundDiv(c * v, 1000)

(* Angles t/10 + p*pi/20 *)

Ang(t, p) == [t |-> t, p |-> p]

AngAdd(a, b) == [t |-> a.t + b.t, p |-> a.p + b.p]

AngSub(a, b) == [t |-> a.t - b.t, p |-> a.p - b.p]

AngNeg(a) == [t |-> -a.t, p |-> -a.p]

\* the sign of t/10 + p*pi/20, that is of 2t + p*pi, with 333/106 < pi < 355/113
AngSign(a) ==
    IF a.p = 0 THEN Sgn(a.t)
    ELSE IF a.t = 0 THEN Sgn(a.p)
    ELSE IF a.p > 0
         THEN (IF 2 * a.t * 106 + 333 * a.p > 0 THEN 1 ELSE -1)
         ELSE (IF 2 * a.t * 113 + 355 * a.p > 0 THEN 1 ELSE -1)

AngAbs(a) == IF AngSign(a) < 0 THEN AngNeg(a) ELSE a

Pi == Ang(0, ScalingFactor)

TwoPi == Ang(0, 2 * ScalingFactor)

\* Python's round() on a coordinate: the nearest integer pixel, halves to even
PyRound(v) ==
    LET q == v \div PosScale
        r == v % PosScale
    IN  IF 2 * r < PosScale THEN q
        ELSE IF 2 * r > PosScale THEN q + 1
        ELSE IF q % 2 = 0 THEN q ELSE q + 1

\* C's fmod: the remainder takes the sign of x
TruncMod(x, w) == IF x < 0 THEN -((-x) % w) ELSE x % w

\* Python's x % w for w > 0: the remainder takes the sign of w
PyMod(x, w) == x % w

----------------------------------------------------------------------------
(* IKSegment, IKChain *)

NewSegment(size) == [size |-> size, angle |-> 0, pos |-> [x |-> 0, y |-> 0]]

NewChain(n, size) == [i \in 1..n |-> NewSegment(size)]

\* the tenths of a radian of the quadrant of (dx, dy), as atan2 picks it
Quadrant(dy, dx) ==
    IF dy >= 0 THEN (IF dx >= 0 THEN 0..16 ELSE 15..31)
    ELSE (IF dx >= 0 THEN -16..0 ELSE -31..-15)

\* how far (dx, dy) reaches along the direction k/10 rad, times 1000
Along(dx, dy, k) == dx * Cos(k) + dy * Sin(k)

\* math.atan2(dy, dx) in tenths of a radian: the k of the quadrant along
\* whose direction (dx, dy) reaches farthest, which is the direction nearest
\* to that of (dx, dy) (of two equally near, the one nearer the x axis);
\* atan2(0, 0) is 0
Atan2(dy, dx) ==
    IF dx = 0 /\ dy = 0 THEN 0
    ELSE LET q == Quadrant(dy, dx)
             s == IF dy >= 0 THEN 1 ELSE -1
         IN  CHOOSE k \in q :
                /\ (k + s) \in q => Along(dx, dy, k) >= Along(dx, dy, k + s)
                /\ (k - s) \in q => Along(dx, dy, k) > Along(dx, dy, k - s)

IKSegmentUpdate(seg, target_x, target_y) ==
    LET angle == Atan2(target_y - seg.pos.y, target_x - seg.pos.x)
    IN  [size |-> seg.size,
         angle |-> angle,
         pos |-> [x |-> target_x - TrigMul(Cos(angle), seg.size),
                  y |-> target_y - TrigMul(Sin(angle), seg.size)]]

\* segments i .. len of the loop of IKChain.update, segs[1 .. i-1] already moved
RECURSIVE IKChainLoop(_, _)
IKChainLoop(segs, i) ==
    IF i > Len(segs) THEN segs
    ELSE IKChainLoop(
            [segs EXCEPT ![i] = IKSegmentUpdate(segs[i], segs[i-1].pos.x, segs[i-1].pos.y)],
            i + 1)

\* the same loop run from the tail to the head: each segment follows the place
\* its predecessor had before this call
RECURSIVE IKChainLoopReversed(_, _)
IKChainLoopReversed(segs, i) ==
    IF i < 2 THEN segs
    ELSE IKChainLoopReversed(
            [segs EXCEPT ![i] = IKSegmentUpdate(segs[i], segs[i-1].pos.x, segs[i-1].pos.y)],
            i - 1)

IKChainUpdateReversed(segs, tgt) ==
    [IKChainLoopReversed(segs, Len(segs)) EXCEPT ![1].pos = [x |-> tgt.x, y |-> tgt.y]]

\* the head treated as one more link: placed its own length behind the target
IKChainUpdateHeadLink(segs, tgt) ==
    IKChainLoop([segs EXCEPT ![1] = IKSegmentUpdate(segs[1], tgt.x, tgt.y)], 2)

IKChainUpdate(segs, tgt) ==
    IKChainLoop([segs EXCEPT ![1].pos = [x |-> tgt.x, y |-> tgt.y]], 2)

----------------------------------------------------------------------------
(* WormSimulation.update_brain *)

TargetDir(facing, left, right) == AngAdd(Ang(facing, 0), Ang(0, left - right))

TargetSpeed(left, right) ==
    RoundDiv((Abs(left) + Abs(right)) * PosScale, ScalingFactor * 5)

SpeedChangeIntervalSwapped(tspeed, spd) == RoundDiv(spd - tspeed, (ScalingFactor * 3) \div 2)

SpeedChangeInterval(tspeed, spd) == RoundDiv(tspeed - spd, (ScalingFactor * 3) \div 2)

(* WormSimulation.update *)

\* angle_diff of lines 140-147
AngleDiff(facing, tdir) ==
    LET f == Ang(facing, 0)
        facing_minus_target == AngSub(f, tdir)
    IN  IF AngSign(AngSub(AngAbs(facing_minus_target), Pi)) > 0
        THEN IF AngSign(facing_minus_target) > 0
             THEN AngNeg(AngAdd(AngSub(TwoPi, f), tdir))
             ELSE AngAdd(AngSub(TwoPi, tdir), f)
        ELSE facing_minus_target

\* a step the size of the error (in tenths of a radian, pi/20 being 1.57
\* tenths), up to 0.3 rad, instead of 0.1
NewFacingProportional(facing, tdir) ==
    LET error == AngleDiff(facing, tdir).t + RoundDiv(AngleDiff(facing, tdir).p * 157, 100)
    IN  IF error > 3 * TurnStep THEN facing - 3 * TurnStep
        ELSE IF error < -3 * TurnStep THEN facing + 3 * TurnStep
        ELSE facing - error

\* facing_dir after lines 149-152
NewFacing(facing, tdir) ==
    LET s == AngSign(AngleDiff(facing, tdir))
    IN  IF s > 0 THEN facing - TurnStep
        ELSE IF s < 0 THEN facing + TurnStep
        ELSE facing

\* the target before the wrap of lines 157-158
RawTarget(tgt, facing, spd) ==
    [x |-> tgt.x + TrigMul(Cos(facing), spd),
     y |-> tgt.y - TrigMul(Sin(facing), spd)]

\* the target after lines 154-158
MoveTarget(tgt, facing, spd) ==
    [x |-> PyMod(RawTarget(tgt, facing, spd).x, Width * PosScale),
     y |-> PyMod(RawTarget(tgt, facing, spd).y, Height * PosScale)]

\* math.hypot(round(target.x) - food.x, round(target.y) - food.y) <= radius
WithinRadius(tgt, f, radius) ==
    LET dx == PyRound(tgt.x) - f.x
        dy == PyRound(tgt.y) - f.y
    IN  dx * dx + dy * dy <= radius * radius

\* list.remove(v): drops the first element equal to v
RECURSIVE ListRemove(_, _)
ListRemove(s, v) ==
    IF s = <<>> THEN s
    ELSE IF Head(s) = v THEN Tail(s)
    ELSE <<Head(s)>> \o ListRemove(Tail(s), v)

\* the loop of lines 160-165 from snap[i] on, snap being the copy self.food[:]; live is self.food
RECURSIVE FoodLoop(_, _, _, _, _)
FoodLoop(snap, i, tgt, live, flag) ==
    IF i > Len(snap) THEN [food |-> live, flag |-> flag]
    ELSE IF WithinRadius(tgt, snap[i], SenseRadius)
         THEN FoodLoop(snap, i + 1, tgt,
                       IF WithinRadius(tgt, snap[i], ConsumeRadius)
                       THEN ListRemove(live, snap[i]) ELSE live,
                       TRUE)
         ELSE FoodLoop(snap, i + 1, tgt, live, flag)

\* the loop iterating self.food itself while removing from it: the element
\* after a removed one slides into its index and is skipped
RECURSIVE FoodLoopLive(_, _, _, _)
FoodLoopLive(i, tgt, live, flag) ==
    IF i > Len(live) THEN [food |-> live, flag |-> flag]
    ELSE IF WithinRadius(tgt, live[i], SenseRadius)
         THEN FoodLoopLive(i + 1, tgt,
                           IF WithinRadius(tgt, live[i], ConsumeRadius)
                           THEN ListRemove(live, live[i]) ELSE live,
                           TRUE)
         ELSE FoodLoopLive(i + 1, tgt, live, flag)

CheckFoodLive(tgt, live, flag) == FoodLoopLive(1, tgt, live, flag)

\* the loop sensing only what it does not eat
RECURSIVE FoodLoopNoSense(_, _, _, _, _)
FoodLoopNoSense(snap, i, tgt, live, flag) ==
    IF i > Len(snap) THEN [food |-> live, flag |-> flag]
    ELSE IF WithinRadius(tgt, snap[i], ConsumeRadius)
         THEN FoodLoopNoSense(snap, i + 1, tgt, ListRemove(live, snap[i]), flag)
         ELSE IF WithinRadius(tgt, snap[i], SenseRadius)
              THEN FoodLoopNoSense(snap, i + 1, tgt, live, TRUE)
              ELSE FoodLoopNoSense(snap, i + 1, tgt, live, FALSE)

CheckFoodNoSense(tgt, live, flag) == FoodLoopNoSense(live, 1, tgt, live, flag)

\* lines 160-165: self.food and the brain's flag after the loop
CheckFood(tgt, live, flag) == FoodLoop(live, 1, tgt, live, flag)

----------------------------------------------------------------------------
(* The frame loop of WormSimulation.run *)

Centre == [x |-> (Width \div 2) * PosScale, y |-> (Height \div 2) * PosScale]

LayoutIdle == neurons = 0 /\ rows = 0 /\ cols = 0 /\ positions = <<>>

\* WormSimulation.__init__, the accumulators being what Brain() leaves and
\* the chain being segs
Constructed(left, right, segs) ==
    /\ tick = 0
    /\ accumleft = left /\ accumright = right
    /\ food_sense = FALSE
    /\ target = Centre
    /\ facing_dir = 0
    /\ target_dir = Ang(0, 0)
    /\ speed = 0
    /\ target_speed = 0
    /\ speed_change_interval = 0
    /\ food = <<>>
    /\ chain = segs
    /\ unwrapped = Centre
    /\ snapshot = <<>>

SimChain == NewChain(NumSegments, SegmentLength * PosScale)

Init == pc = "events" /\ Constructed(0, 0, SimChain) /\ LayoutIdle

\* pygame.MOUSEBUTTONDOWN: self.food.append(event.pos)
Click ==
    /\ pc = "events"
    /\ tick < MaxTicks
    /\ Len(food) < MaxFood
    /\ \E spot \in FoodSpots : food' = Append(food, spot)
    /\ UNCHANGED <<pc, tick, accumleft, accumright, food_sense, target, facing_dir,
                   target_dir, speed, target_speed, speed_change_interval, chain,
                   unwrapped, snapshot>>
    /\ UNCHANGED layoutVars

\* self.update_brain(), brain.update() leaving the accumulators at left, right
\* and the flag at flag
BrainStep(left, right, flag) ==
    /\ pc = "events"
    /\ pc' = "update"
    /\ accumleft' = left
    /\ accumright' = right
    /\ food_sense' = flag
    /\ target_dir' = TargetDir(facing_dir, left, right)
    /\ target_speed' = TargetSpeed(left, right)
    /\ speed_change_interval' = SpeedChangeInterval(TargetSpeed(left, right), speed)
    /\ UNCHANGED <<tick, target, facing_dir, speed, food, chain, unwrapped, snapshot>>
    /\ UNCHANGED layoutVars

\* the end of event polling, then self.update_brain()
UpdateBrain ==
    /\ tick < MaxTicks
    /\ \E accum \in AccumPairs, flag \in {food_sense, FALSE} :
          BrainStep(accum[1], accum[2], flag)

\* self.update(); draw, flip and clock.tick change nothing modelled
Update ==
    /\ pc = "update"
    /\ pc' = "events"
    /\ tick' = tick + 1
    /\ speed' = speed + speed_change_interval
    /\ facing_dir' = NewFacing(facing_dir, target_dir)
    /\ unwrapped' = RawTarget(target, facing_dir', speed')
    /\ target' = MoveTarget(target, facing_dir', speed')
    /\ snapshot' = food
    /\ food' = CheckFood(target', food, food_sense).food
    /\ food_sense' = CheckFood(target', food, food_sense).flag
    /\ chain' = IKChainUpdate(chain, target')
    /\ UNCHANGED <<accumleft, accumright, target_dir, target_speed, speed_change_interval>>
    /\ UNCHANGED layoutVars

Next == Click \/ UpdateBrain \/ Update

Spec == Init /\ [][Next]_vars

----------------------------------------------------------------------------
(* The frame loop with a brain whose accumulators never change and no input *)

InitHold ==
    /\ pc = "events"
    /\ \E left \in HoldVals, right \in HoldVals : Constructed(left, right, SimChain)
    /\ LayoutIdle

UpdateBrainHold ==
    /\ tick < MaxHoldTicks
    /\ BrainStep(accumleft, accumright, food_sense)

NextHold == UpdateBrainHold \/ Update

SpecHold == InitHold /\ [][NextHold]_vars

----------------------------------------------------------------------------
(* IKChain.update on a chain of three segments, from any prior positions *)

PlacedSegment(size, p) == [size |-> size, angle |-> 0, pos |-> p]

InitIK ==
    /\ pc = "ik"
    /\ \E p1 \in IKPoints, p2 \in IKPoints, p3 \in IKPoints :
          Constructed(0, 0, << PlacedSegment(SegmentLength * PosScale, p1),
                               PlacedSegment(SegmentLength * PosScale, p2),
                               PlacedSegment(SegmentLength * PosScale, p3) >>)
    /\ LayoutIdle

\* chain.update(tgt)
IKStep ==
    /\ pc = "ik"
    /\ tick < MaxIKSteps
    /\ tick' = tick + 1
    /\ \E tgt \in IKPoints :
          /\ target' = tgt
          /\ chain' = IKChainUpdate(chain, tgt)
    /\ UNCHANGED <<pc, accumleft, accumright, food_sense, facing_dir, target_dir, speed,
                   target_speed, speed_change_interval, food, unwrapped, snapshot>>
    /\ UNCHANGED layoutVars

NextIK == IKStep

SpecIK == InitIK /\ [][NextIK]_vars

----------------------------------------------------------------------------
(* WormSimulation.initialize_neuron_positions *)

\* int(math.sqrt(n))
ISqrt(n) == CHOOSE r \in 0..n : r * r <= n /\ n < (r + 1) * (r + 1)

\* math.ceil(a / b)
CeilDiv(a, b) == (a + b - 1) \div b

InitLayout ==
    /\ pc = "layout"
    /\ Constructed(0, 0, SimChain)
    /\ neurons \in 0..MaxNeurons
    /\ rows = 0 /\ cols = 0 /\ positions = <<>>

\* lines 61-64; line 64 divides by rows
LayoutGrid ==
    /\ pc = "layout"
    /\ rows' = ISqrt(neurons)
    /\ IF rows' = 0
       THEN pc' = "ZeroDivisionError" /\ cols' = cols
       ELSE pc' = "place" /\ cols' = CeilDiv(neurons, rows')
    /\ UNCHANGED <<neurons, positions>>
    /\ UNCHANGED <<tick, accumleft, accumright, food_sense, target, facing_dir, target_dir,
                   speed, target_speed, speed_change_interval, food, chain, unwrapped,
                   snapshot>>

\* one pass of the loop of lines 69-74, for i = Len(positions)
LayoutPlace ==
    /\ pc = "place"
    /\ Len(positions) < neurons
    /\ LET i == Len(positions)
           row == i \div cols
           col == i % cols
       IN  positions' = Append(positions,
                [x |-> RoundDiv((col + 1) * Width * PosScale, cols + 1),
                 y |-> RoundDiv((row + 1) * Height * PosScale, rows + 1)])
    /\ UNCHANGED <<pc, neurons, rows, cols>>
    /\ UNCHANGED <<tick, accumleft, accumright, food_sense, target, facing_dir, target_dir,
                   speed, target_speed, speed_change_interval, food, chain, unwrapped,
                   snapshot>>

\* line 76
LayoutReturn ==
    /\ pc = "place"
    /\ Len(positions) = neurons
    /\ pc' = "returned"
    /\ UNCHANGED layoutVars
    /\ UNCHANGED <<tick, accumleft, accumright, food_sense, target, facing_dir, target_dir,
                   speed, target_speed, speed_change_interval, food, chain, unwrapped,
                   snapshot>>

NextLayout == LayoutGrid \/ LayoutPlace \/ LayoutReturn

SpecLayout == InitLayout /\ [][NextLayout]_vars

----------------------------------------------------------------------------
(* Properties *)

FoodCount(list, m) == Cardinality({i \in DOMAIN list : list[i] = m})

SenseOnly(tgt, m) == WithinRadius(tgt, m, SenseRadius) /\ ~WithinRadius(tgt, m, ConsumeRadius)

FoodConsumptionAsClaimed ==
    [][pc = "update" =>
        \A i \in DOMAIN food :
            WithinRadius(target, food[i], ConsumeRadius) => FoodCount(food', food[i]) = 0]_vars

\* C2 (Spec), as amended.  The distance is the one the tick measures, from the
\* rounded target after the tick's move: when a tick ends the food collection
\* is what it was with every marker within 20 of that position removed
\* (several at once, duplicates included) and the others kept in their order.
FoodConsumption ==
    [][pc = "update" =>
        LET Kept(m) == ~WithinRadius(target', m, ConsumeRadius)
        IN  food' = SelectSeq(food, Kept)]_vars

\* a tick that found two markers at the same spot, both within 20, and ate both
FoodConsumptionWitness ==
    /\ tick > 0
    /\ Len(snapshot) = 2
    /\ snapshot[1] = snapshot[2]
    /\ WithinRadius(target, snapshot[1], ConsumeRadius)
    /\ food = <<>>

\* C3 (Spec).  Food sensing, distances being the ones the tick measures (from
\* the rounded target after its move): a marker at a distance in (20, 50] is
\* still in the collection, as often as before, when the tick ends and the
\* food-sensed flag is then set; a tick that finds every marker farther than
\* 50 leaves the flag as it was; and no tick clears the flag.
FoodSensing ==
    [][pc = "update" =>
        /\ \A i \in DOMAIN food :
              SenseOnly(target', food[i]) =>
                  food_sense' /\ FoodCount(food', food[i]) = FoodCount(food, food[i])
        /\ (\A i \in DOMAIN food : ~WithinRadius(target', food[i], SenseRadius))
              => food_sense' = food_sense
        /\ food_sense => food_sense']_vars

\* a tick that sensed a marker at a distance in (20, 50] and left it in place
FoodSensingWitness ==
    /\ tick > 0
    /\ pc = "events"
    /\ food_sense
    /\ \E i \in DOMAIN snapshot :
          SenseOnly(target, snapshot[i]) /\ FoodCount(food, snapshot[i]) > 0

\* C4 (Spec).  Heading smoothing: in every tick the heading changes by at most
\* 0.1 rad; by exactly 0.1 when the corrected difference angle_diff is not
\* zero and not at all when it is zero.
HeadingStepBounded ==
    [][pc = "update" =>
        LET d == facing_dir' - facing_dir
            c == AngSign(AngleDiff(facing_dir, target_dir))
        IN  /\ Abs(d) <= TurnStep
            /\ c # 0 => Abs(d) = TurnStep
            /\ c = 0 => d = 0]_vars

\* a first tick that turned the heading by -0.1 with left - right = 30, where
\* the error is 1.5 pi
HeadingStepBoundedWitness ==
    /\ tick = 1
    /\ pc = "events"
    /\ accumleft - accumright > ScalingFactor
    /\ facing_dir = -TurnStep

\* the way round the circle from a heading to a direction p*pi/20 ahead of it
\* that is shorter: 1 towards larger angles, -1 towards smaller ones, 0 when
\* the direction is the heading itself or exactly opposite
ShorterArc(p) ==
    LET q == ((p + ScalingFactor) % (2 * ScalingFactor)) - ScalingFactor
    IN  IF q = -ScalingFactor THEN 0 ELSE Sgn(q)

\* C5 (Spec), as claimed.  Whenever |facing_dir - target_dir| > pi in a tick,
\* and one way round to target_dir is shorter, the heading takes its 0.1 step
\* that way.
ShortestPathCorrection ==
    [][pc = "update" =>
        LET p == AngSub(target_dir, Ang(facing_dir, 0)).p
        IN  (Abs(p) > ScalingFactor /\ ShorterArc(p) # 0)
                => facing_dir' - facing_dir = ShorterArc(p) * TurnStep]_vars

LinkLengthSquared(segs, i) ==
    (segs[i].pos.x - segs[i-1].pos.x) * (segs[i].pos.x - segs[i-1].pos.x)
  + (segs[i].pos.y - segs[i-1].pos.y) * (segs[i].pos.y - segs[i-1].pos.y)

\* the link from segment i to its predecessor is segs[i].size long, to within
\* two grid points
LinkHolds(segs, i) ==
    Abs(LinkLengthSquared(segs, i) - segs[i].size * segs[i].size) <= 4 * segs[i].size

At(segs, i, px, py) == segs[i].pos = [x |-> px * PosScale, y |-> py * PosScale]

\* C6 (SpecIK).  IK link lengths: after every IKChain.update, whatever the
\* target and the positions before, every segment i > 0 is its length away
\* from segment i-1 (to within two grid points, the model's rounding); and
\* three segments of length 10 at (0,0) updated with (100,0) end at (100,0),
\* (90,0), (80,0) exactly.
IKLinkLength ==
    [][pc = "ik" =>
        /\ \A i \in 2..Len(chain') : LinkHolds(chain', i)
        /\ ((\A i \in DOMAIN chain : At(chain, i, 0, 0)) /\ target' = [x |-> 100 * PosScale, y |-> 0])
              => At(chain', 1, 100, 0) /\ At(chain', 2, 90, 0) /\ At(chain', 3, 80, 0)]_vars

\* the chain after the update of the example
IKLinkLengthWitness ==
    /\ pc = "ik"
    /\ tick = 1
    /\ At(chain, 1, 100, 0) /\ At(chain, 2, 90, 0) /\ At(chain, 3, 80, 0)

\* C7 (Spec), as claimed.  Head fidelity: in every state from construction on,
\* segment 0's position is the target.
HeadFidelity == chain[1].pos = target

\* C7 (Spec), as amended.  Once the first tick has run, and after every tick,
\* segment 0's position is the wrapped target exactly.
HeadFidelityAfterTick == tick > 0 => chain[1].pos = target

\* a tick that wrapped the target, the head being at the wrapped position
HeadFidelityWitness ==
    /\ tick > 0
    /\ unwrapped # target
    /\ chain[1].pos = target
    /\ chain[2].pos # target

\* C8 (Spec).  Speed convergence: in every tick speed ends no farther from
\* that tick's target_speed than it started and not on the other side of it;
\* so over a run of ticks with one target_speed the distance never grows and
\* speed never overshoots.
SpeedConvergence ==
    [][pc = "update" =>
        /\ Abs(target_speed - speed') <= Abs(target_speed - speed)
        /\ Sgn(target_speed - speed') \in {0, Sgn(target_speed - speed)}]_vars

\* two ticks with the same target_speed, speed having moved towards it twice
SpeedConvergenceWitness ==
    LET ts == TargetSpeed(-60000, -60000)
        s1 == SpeedChangeInterval(ts, 0)
    IN  /\ tick = 2
        /\ target_speed = ts
        /\ speed = s1 + SpeedChangeInterval(ts, s1)
        /\ s1 < speed /\ speed < ts

\* C9 (SpecHold), as claimed.  Heading normalization: facing_dir is in
\* (-pi, pi] in every state.
HeadingNormalized ==
    /\ AngSign(AngAdd(Ang(facing_dir, 0), Pi)) > 0
    /\ AngSign(AngSub(Ang(facing_dir, 0), Pi)) <= 0

\* C10 (SpecLayout), as claimed.  Empty-layout guard: the layout never fails,
\* with no identifiers it returns an empty layout, and whenever it returns it
\* holds a position for every identifier.
EmptyLayoutGuard ==
    /\ pc # "ZeroDivisionError"
    /\ pc = "returned" => Len(positions) = neurons

====
